---- MODULE Spec2Model ----
(***************************************************************************)
(* Model of manlikesolomon/stock_market_analysis.                          *)
(*                                                                         *)
(*   batch_jobs/stock_etl.py   download -> flat panel -> Spark window      *)
(*                             features -> parquet overwrite               *)
(*   streamlit_app/app.py      once-a-day guard, cached load_data          *)
(*                                                                         *)
(* Numbers.  Prices are integers counted in hundredths of a currency unit, *)
(* and every column the code passes through round(..., 2) is held as an    *)
(* integer number of hundredths, so round(x, 2) of the exact quotient n/d  *)
(* (n, d in hundredths) is the integer round(n, d).  Spark's round is      *)
(* HALF_UP (ties away from zero).  A Spark null is the empty tuple <<>>,   *)
(* a present value v is <<v>>.  Spark's non-ANSI arithmetic is modelled:   *)
(* x / 0 is null and null propagates through +, -, *, / and round.         *)
(***************************************************************************)
EXTENDS Integers, Sequences, FiniteSets, TLC

VARIABLES
    \* stock_etl.py, one run of the script on its data
    raw,            \* what yf.download returned, per ticker
    flat_df,        \* the flat pandas panel
    spark_df,       \* the Spark DataFrame
    etl_pc,         \* the statement the script is at
    \* app.py and the files it shares with the setup script
    today,          \* the calendar date datetime.now() falls on
    timestamp_file, \* content of last_run_date.txt, null while it does not exist
    table_exists,   \* whether the parquet directory exists
    table,          \* the part files visible in the parquet directory
    pc,             \* per dashboard session: where its script run is
    current_date,   \* per session: current_date of check_and_run_setup
    setup,          \* per session: the setup script it launched
    cache,          \* st.cache_data: the cached return value of load_data
    app_df,         \* per session: df, what load_data returned
    runs,           \* number of setup scripts launched so far
    launched,       \* per date: number of setup scripts launched on it
    published,      \* whether a complete snapshot has been on disk
    failed_on       \* the dates written to the file after a failed run

etl_vars == <<raw, flat_df, spark_df, etl_pc>>

app_vars == <<today, timestamp_file, table_exists, table, pc, current_date,
              setup, cache, app_df, runs, launched, published, failed_on>>

vars == <<etl_vars, app_vars>>

(***************************************************************************)
(* Bounds of the model.                                                    *)
(***************************************************************************)
MaxLen == 14        \* every series length 1..MaxLen is downloaded

\* Beside them, a series one row longer than the 200-row window, in which
\* the 12, 26, 50 and 200 row frames all fill up.
LongLens == {201}

NumSessions == 2    \* dashboard sessions running the app script
MaxDate == 3        \* calendar dates the clock passes through
NumParts == 2       \* part files of one written snapshot
MaxRuns == 4        \* setup scripts launched in one behaviour

(***************************************************************************)
(* stock_etl.py: tickers.  Two of the thirty symbols, in the order the     *)
(* list has them (positions 3 and 4): the list is not alphabetical.        *)
(***************************************************************************)
tickers == <<"NVDA", "GOOGL">>

\* sorted(tickers): Python's str order on the symbols above.
sorted_tickers == <<"GOOGL", "NVDA">>

TickerSet == {tickers[k] : k \in 1..Len(tickers)}

(***************************************************************************)
(* Values: Spark null and arithmetic on nullable numbers.                  *)
(***************************************************************************)
Null == <<>>
Some(v) == <<v>>
IsNull(x) == x = <<>>
Val(x) == x[1]

\* pyspark.sql.functions.round(n/d, 2), everything in hundredths: HALF_UP
\* (ties away from zero), d > 0.
round(n, d) ==
    IF n >= 0 THEN (2 * n + d) \div (2 * d)
              ELSE -((2 * (-n) + d) \div (2 * d))

\* round(((a - b) / b * 100), 2) on nullable columns a, b: null when an
\* operand is null or the divisor is 0 (Spark's non-ANSI division).
pct_change(a, b) ==
    IF IsNull(a) \/ IsNull(b) THEN Null
    ELSE IF Val(b) = 0 THEN Null
    ELSE IF Val(b) > 0 THEN Some(round((Val(a) - Val(b)) * 10000, Val(b)))
    ELSE Some(round((Val(b) - Val(a)) * 10000, -Val(b)))

\* col(a) - col(b)
minus(a, b) == IF IsNull(a) \/ IsNull(b) THEN Null ELSE Some(Val(a) - Val(b))

(***************************************************************************)
(* Input: what yf.download hands back (stock_etl.py 32).  One date index   *)
(* shared by every ticker (Date is the trading-day number, strictly        *)
(* increasing) and per ticker one OHLCV bar per date.  A series is a bar   *)
(* pattern repeated to n rows; the patterns hold the scenarios of the      *)
(* specification (constant 50.00; 100, 110, 99), a close one hundredth     *)
(* under its peak, a Low of 0, and closes whose averages fall on halves.   *)
(***************************************************************************)
Bar(o, h, l, c, v) ==
    [Open |-> Some(o), High |-> Some(h), Low |-> Some(l), Close |-> Some(c),
     Volume |-> Some(v)]

Patterns ==
    { <<Bar(5000, 5100, 4900, 5000, 10)>>,
      <<Bar(10000, 10100, 9900, 10000, 10), Bar(10000, 11100, 10000, 11000, 20),
        Bar(11000, 11000, 9800, 9900, 30)>>,
      <<Bar(20001, 20003, 20000, 20002, 10), Bar(20002, 20002, 20000, 20001, 10)>>,
      <<Bar(1, 2, 0, 1, 0), Bar(1, 2, 1, 2, 10)>>,
      <<Bar(3, 3, 1, 3, 10), Bar(3, 3, 0, 1, 10), Bar(1, 2, 1, 2, 10)>> }

Series(pat, n) ==
    [i \in 1..n |-> (("Date" :> i) @@ pat[((i - 1) % Len(pat)) + 1])]

\* Every pairing of patterns at the short lengths; at the long lengths the
\* tickers share a pattern.
Inputs ==
    { [t \in TickerSet |-> Series(pp[t], n)] :
        pp \in [TickerSet -> Patterns], n \in 1..MaxLen }
    \cup { [t \in TickerSet |-> Series(p, n)] : p \in Patterns, n \in LongLens }

(***************************************************************************)
(* Panel builder, stock_etl.py 35-46: per ticker reset_index and tag the   *)
(* rows with the symbol, then pd.concat in list order.                     *)
(***************************************************************************)
RECURSIVE concat(_)
concat(dfs) ==
    IF dfs = <<>> THEN <<>>
    ELSE Head(dfs) \o concat(Tail(dfs))

ticker_df(r, ticker) ==
    [i \in 1..Len(r[ticker]) |-> (("Ticker" :> ticker) @@ r[ticker][i])]

df_list_alphabetical(r) ==
    [k \in 1..Len(sorted_tickers) |-> ticker_df(r, sorted_tickers[k])]
df_list(r) == [k \in 1..Len(tickers) |-> ticker_df(r, tickers[k])]

build_flat_df(r) == concat(df_list(r))

(***************************************************************************)
(* Spark windows, stock_etl.py 61-67: partitionBy('Ticker'),               *)
(* orderBy('Date') and a row frame [lo, hi] relative to the current row.   *)
(* An unbounded frame start is the null bound.                             *)
(***************************************************************************)
unboundedPreceding == Null

Window(byTicker, lo, hi) == [partitionBy |-> byTicker, lo |-> lo, hi |-> hi]

window_spec == Window(TRUE, unboundedPreceding, 0)
ma_window_12_wide == Window(TRUE, Some(-12), 0)
ma_window_12 == Window(TRUE, Some(-11), 0)
ma_window_26 == Window(TRUE, Some(-25), 0)
ma_window_50 == Window(TRUE, Some(-49), 0)
ma_window_200 == Window(TRUE, Some(-199), 0)
window_cum == Window(TRUE, unboundedPreceding, 0)
signal_window_lookahead == Window(TRUE, Some(-8), 1)
signal_window == Window(TRUE, Some(-8), 0)
peak_window_before == Window(TRUE, unboundedPreceding, -1)
peak_window == Window(TRUE, unboundedPreceding, 0)

\* orderBy('Date'): a stable merge sort on Date.  The position of a row of
\* one sorted half in the merged result is its position in its half plus the
\* number of rows of the other half that go before it.
merge_by_date(a, b) ==
    IF a = <<>> THEN b
    ELSE IF b = <<>> \/ a[Len(a)].Date <= b[1].Date THEN a \o b
    ELSE LET pa == [i \in 1..Len(a) |->
                      i + Cardinality({j \in 1..Len(b) : b[j].Date < a[i].Date})]
             pb == [j \in 1..Len(b) |->
                      j + Cardinality({i \in 1..Len(a) : a[i].Date <= b[j].Date})]
         IN  [k \in 1..(Len(a) + Len(b)) |->
                IF \E i \in 1..Len(a) : pa[i] = k
                THEN a[CHOOSE i \in 1..Len(a) : pa[i] = k]
                ELSE b[CHOOSE j \in 1..Len(b) : pb[j] = k]]

RECURSIVE order_by_date(_)
order_by_date(rows) ==
    IF Len(rows) <= 1 THEN rows
    ELSE LET mid == Len(rows) \div 2
         IN  merge_by_date(order_by_date(SubSeq(rows, 1, mid)),
                           order_by_date(SubSeq(rows, mid + 1, Len(rows))))

\* The partitions of df under window w, each ordered by Date.
partitions(df, w) ==
    IF w.partitionBy
    THEN [j \in 1..Len(tickers) |->
            order_by_date(SelectSeq(df, LAMBDA r : r.Ticker = tickers[j]))]
    ELSE <<order_by_date(df)>>

\* First and last position of the frame of w around position i of partition p.
frame_lo(p, i, w) ==
    IF IsNull(w.lo) \/ i + Val(w.lo) < 1 THEN 1 ELSE i + Val(w.lo)
frame_hi(p, i, w) == IF i + w.hi > Len(p) THEN Len(p) ELSE i + w.hi

\* lag(c, offset).over(w): the value offset rows back in the partition.
lag(p, i, c, offset) ==
    IF i - offset >= 1 /\ i - offset <= Len(p) THEN p[i - offset][c] ELSE Null

\* Sum and count of the non-null values of column c at positions lo..hi
\* (halving the range keeps the evaluation shallow).
RECURSIVE frame_sum(_, _, _, _)
frame_sum(p, c, lo, hi) ==
    IF lo > hi THEN 0
    ELSE IF lo = hi THEN (IF IsNull(p[lo][c]) THEN 0 ELSE Val(p[lo][c]))
    ELSE LET mid == (lo + hi) \div 2
         IN  frame_sum(p, c, lo, mid) + frame_sum(p, c, mid + 1, hi)

RECURSIVE frame_count(_, _, _, _)
frame_count(p, c, lo, hi) ==
    IF lo > hi THEN 0
    ELSE IF lo = hi THEN (IF IsNull(p[lo][c]) THEN 0 ELSE 1)
    ELSE LET mid == (lo + hi) \div 2
         IN  frame_count(p, c, lo, mid) + frame_count(p, c, mid + 1, hi)

\* round(avg(c).over(w), 2): null on a frame without values.
round_avg(p, i, c, w) ==
    LET lo == frame_lo(p, i, w)
        hi == frame_hi(p, i, w)
        n == frame_count(p, c, lo, hi)
    IN  IF n = 0 THEN Null ELSE Some(round(frame_sum(p, c, lo, hi), n))

\* first(c).over(w): the value of the frame's first row.
first(p, i, c, w) ==
    IF frame_lo(p, i, w) > frame_hi(p, i, w) THEN Null
    ELSE p[frame_lo(p, i, w)][c]

\* max(c).over(w): the largest non-null value of the frame.
larger(u, v) ==
    IF IsNull(u) THEN v
    ELSE IF IsNull(v) \/ Val(u) >= Val(v) THEN u
    ELSE v

RECURSIVE frame_max(_, _, _, _)
frame_max(p, c, lo, hi) ==
    IF lo > hi THEN Null
    ELSE IF lo = hi THEN p[lo][c]
    ELSE LET mid == (lo + hi) \div 2
         IN  larger(frame_max(p, c, lo, mid), frame_max(p, c, mid + 1, hi))

max(p, i, c, w) == frame_max(p, c, frame_lo(p, i, w), frame_hi(p, i, w))

(***************************************************************************)
(* Feature engineering, stock_etl.py 70-129: one definition per column     *)
(* expression, then the withColumn chain in source order.                  *)
(***************************************************************************)
Prev_close(p, i) == lag(p, i, "Close", 1)
Daily_return(r) == pct_change(r.Close, r.Prev_close)
Volatility(r) == pct_change(r.High, r.Low)
MA_12(p, i) == round_avg(p, i, "Close", ma_window_12)
MA_26(p, i) == round_avg(p, i, "Close", ma_window_26)
MA_50(p, i) == round_avg(p, i, "Close", ma_window_50)
MA_200(p, i) == round_avg(p, i, "Close", ma_window_200)
First_Close(p, i) == first(p, i, "Close", window_cum)
Cumulative_Return(r) == pct_change(r.Close, r.First_Close)
Close_7_Days_Ago_short(p, i) == lag(p, i, "Close", 6)
Close_7_Days_Ago(p, i) == lag(p, i, "Close", 7)
Momentum_7d(r) == pct_change(r.Close, r.Close_7_Days_Ago)
MACD_swapped(r) == minus(r.MA_26, r.MA_12)
MACD(r) == minus(r.MA_12, r.MA_26)
Signal_line(p, i) == round_avg(p, i, "MACD", signal_window)
DrawDown(p, i) == pct_change(p[i].Close, max(p, i, "Close", peak_window))

\* The column expression of a withColumn call, by the name of the column.
window_column(name, p, i) ==
    CASE name = "Prev_close" -> Prev_close(p, i)
      [] name = "MA_12" -> MA_12(p, i)
      [] name = "MA_26" -> MA_26(p, i)
      [] name = "MA_50" -> MA_50(p, i)
      [] name = "MA_200" -> MA_200(p, i)
      [] name = "First_Close" -> First_Close(p, i)
      [] name = "Close_7_Days_Ago" -> Close_7_Days_Ago(p, i)
      [] name = "Signal_line" -> Signal_line(p, i)
      [] name = "DrawDown" -> DrawDown(p, i)

row_column(name, r) ==
    CASE name = "Daily_return" -> Daily_return(r)
      [] name = "Volatility" -> Volatility(r)
      [] name = "Cumulative_Return" -> Cumulative_Return(r)
      [] name = "Momentum_7d" -> Momentum_7d(r)
      [] name = "MACD" -> MACD(r)

\* df.withColumn(name, <expression>.over(w)): every row of every partition
\* gains the column; the rows come back partition by partition.
with_window_column(df, name, w) ==
    LET parts == partitions(df, w)
    IN  concat([j \in 1..Len(parts) |->
                  [i \in 1..Len(parts[j]) |->
                      ((name :> window_column(name, parts[j], i))
                         @@ parts[j][i])]])

\* df.withColumn(name, <expression of the row's own columns>).
with_column(df, name) ==
    [k \in 1..Len(df) |-> ((name :> row_column(name, df[k])) @@ df[k])]

feature_engineering(df) ==
    LET d1 == with_window_column(df, "Prev_close", window_spec)
        d2 == with_column(d1, "Daily_return")
        d3 == with_column(d2, "Volatility")
        d4 == with_window_column(d3, "MA_12", ma_window_12)
        d5 == with_window_column(d4, "MA_26", ma_window_26)
        d6 == with_window_column(d5, "MA_50", ma_window_50)
        d7 == with_window_column(d6, "MA_200", ma_window_200)
        d8 == with_window_column(d7, "First_Close", window_cum)
        d9 == with_column(d8, "Cumulative_Return")
        d10 == with_window_column(d9, "Close_7_Days_Ago", window_spec)
        d11 == with_column(d10, "Momentum_7d")
        d12 == with_column(d11, "MACD")
        d13 == with_window_column(d12, "Signal_line", signal_window)
    IN  with_window_column(d13, "DrawDown", peak_window)

(***************************************************************************)
(* The dashboard and the files it shares with the setup script.            *)
(*                                                                         *)
(* Streamlit runs app.py top to bottom once per session and again on every *)
(* interaction, each session in its own thread.  subprocess.run blocks the *)
(* calling session until setup.sh, which runs the ETL, has ended.          *)
(*                                                                         *)
(* The ETL ends in spark_df.write...mode('overwrite').save(path): Spark    *)
(* deletes what is at the path, then the job's part files are moved into   *)
(* the directory one by one.  A part file is [run, part].                  *)
(***************************************************************************)
Sessions == 1..NumSessions
Dates == 1..MaxDate

Snapshot(run) == {[run |-> run, part |-> k] : k \in 1..NumParts}
IsSnapshot(files) == \E run \in 1..MaxRuns : files = Snapshot(run)

\* The state before the first run: the ETL script at its first statement,
\* no timestamp file, no table, nothing cached.
Init ==
    /\ raw = [t \in TickerSet |-> <<>>]
    /\ flat_df = <<>>
    /\ spark_df = <<>>
    /\ etl_pc = "download"
    /\ today = 1
    /\ timestamp_file = Null
    /\ table_exists = FALSE
    /\ table = {}
    /\ pc = [s \in Sessions |-> "start"]
    /\ current_date = [s \in Sessions |-> Null]
    /\ setup = [s \in Sessions |-> [status |-> "none"]]
    /\ cache = Null
    /\ app_df = [s \in Sessions |-> Null]
    /\ runs = 0
    /\ launched = [d \in Dates |-> 0]
    /\ published = FALSE
    /\ failed_on = {}

\* app.py 30: if last_run_date != current_date
setup_is_due(last_run_date, now) == last_run_date # now

\* app.py 32-34 and 37-39: what the timestamp file holds after
\* run_setup_script has returned; run_setup_script catches the script's
\* CalledProcessError (app.py 20-21), so the write follows either outcome.
stamp(s) == IF IsNull(current_date[s]) THEN Some(today) ELSE current_date[s]

\* subprocess.run(['bash', SETUP_SCRIPT], check=True), app.py 18
Launch(s) ==
    /\ runs < MaxRuns
    /\ runs' = runs + 1
    /\ launched' = [launched EXCEPT ![today] = @ + 1]
    /\ setup' = [setup EXCEPT ![s] =
                    [status |-> "running", run |-> runs + 1, written |-> -1]]
    /\ pc' = [pc EXCEPT ![s] = "setup"]

\* check_and_run_setup, app.py 25-30 and 35-37: read the timestamp file and
\* the clock, and launch the setup script when it is due.
CheckAndRunSetup(s) ==
    /\ pc[s] = "start"
    /\ IF IsNull(timestamp_file)
       THEN /\ Launch(s)
            /\ current_date' = [current_date EXCEPT ![s] = Null]
       ELSE /\ current_date' = [current_date EXCEPT ![s] = Some(today)]
            /\ IF setup_is_due(Val(timestamp_file), today)
               THEN Launch(s)
               ELSE /\ pc' = [pc EXCEPT ![s] = "load"]
                    /\ UNCHANGED <<setup, runs, launched>>
    /\ UNCHANGED <<today, timestamp_file, table_exists, table, cache, app_df,
                   published, failed_on,
                   etl_vars>>

\* stock_etl.py 134, overwrite: what is at the output path is deleted.
SinkDelete(s) ==
    /\ pc[s] = "setup"
    /\ setup[s].status = "running"
    /\ setup[s].written = -1
    /\ table' = {}
    /\ table_exists' = TRUE
    /\ setup' = [setup EXCEPT ![s].written = 0]
    /\ UNCHANGED <<today, timestamp_file, pc, current_date, cache, app_df, runs,
                   launched, published, failed_on,
                   etl_vars>>

\* stock_etl.py 134, job commit: the next part file appears in the directory.
SinkCommitPart(s) ==
    /\ pc[s] = "setup"
    /\ setup[s].status = "running"
    /\ setup[s].written >= 0
    /\ setup[s].written < NumParts
    /\ table' = table \cup
                  {[run |-> setup[s].run, part |-> setup[s].written + 1]}
    /\ setup' = [setup EXCEPT ![s].written = @ + 1]
    /\ published' = (published \/ IsSnapshot(table'))
    /\ UNCHANGED <<today, timestamp_file, table_exists, pc, current_date,
                   cache, app_df, runs, launched, failed_on,
                   etl_vars>>

\* app.py 18-19: the script has written every part and exits 0.
SetupSucceeds(s) ==
    /\ pc[s] = "setup"
    /\ setup[s].status = "running"
    /\ setup[s].written = NumParts
    /\ setup' = [setup EXCEPT ![s] = [status |-> "ok"]]
    /\ pc' = [pc EXCEPT ![s] = "stamp"]
    /\ UNCHANGED <<today, timestamp_file, table_exists, table, current_date,
                   cache, app_df, runs, launched, published, failed_on,
                   etl_vars>>

\* app.py 20-21: the script exits non-zero, at any point of its run; the
\* CalledProcessError is caught and shown.
SetupFails(s) ==
    /\ pc[s] = "setup"
    /\ setup[s].status = "running"
    /\ setup' = [setup EXCEPT ![s] = [status |-> "failed"]]
    /\ pc' = [pc EXCEPT ![s] = "stamp"]
    /\ UNCHANGED <<today, timestamp_file, table_exists, table, current_date,
                   cache, app_df, runs, launched, published, failed_on,
                   etl_vars>>

\* app.py 33-34 and 38-39: f.write(<date>); check_and_run_setup returns and
\* its locals go out of scope.
WriteTimestamp(s) ==
    /\ pc[s] = "stamp"
    /\ timestamp_file' = stamp(s)
    /\ pc' = [pc EXCEPT ![s] = "load"]
    /\ current_date' = [current_date EXCEPT ![s] = Null]
    /\ failed_on' = IF setup[s].status = "failed"
                     THEN failed_on \cup {Val(stamp(s))} ELSE failed_on
    /\ UNCHANGED <<today, table_exists, table, setup, cache, app_df, runs,
                   launched, published, etl_vars>>

\* app.py 46-50: df = load_data().  A cached value is returned as it is;
\* else pd.read_parquet reads the part files it finds (it raises when the
\* directory is missing) and the value is cached.  The value records, for
\* the properties, whether a complete snapshot had been published before.
read_parquet == [files |-> table, prior |-> published]

LoadData(s) ==
    /\ pc[s] = "load"
    /\ IF ~IsNull(cache)
       THEN /\ app_df' = [app_df EXCEPT ![s] = cache]
            /\ pc' = [pc EXCEPT ![s] = "shown"]
            /\ UNCHANGED cache
       ELSE IF ~table_exists
       THEN /\ pc' = [pc EXCEPT ![s] = "crashed"]
            /\ UNCHANGED <<app_df, cache>>
       ELSE /\ cache' = Some(read_parquet)
            /\ app_df' = [app_df EXCEPT ![s] = Some(read_parquet)]
            /\ pc' = [pc EXCEPT ![s] = "shown"]
    /\ UNCHANGED <<today, timestamp_file, table_exists, table, current_date,
                   setup, runs, launched, published, failed_on,
                   etl_vars>>

\* Streamlit reruns the script of a session (an interaction, a reload).
Rerun(s) ==
    /\ pc[s] \in {"shown", "crashed"}
    /\ pc' = [pc EXCEPT ![s] = "start"]
    /\ app_df' = [app_df EXCEPT ![s] = Null]
    /\ setup' = [setup EXCEPT ![s] = [status |-> "none"]]
    /\ current_date' = [current_date EXCEPT ![s] = Null]
    /\ UNCHANGED <<today, timestamp_file, table_exists, table, cache, runs,
                   launched, published, failed_on,
                   etl_vars>>

\* Midnight passes.
Tick ==
    /\ today < MaxDate
    /\ today' = today + 1
    /\ UNCHANGED <<timestamp_file, table_exists, table, pc, current_date,
                   setup, cache, app_df, runs, launched, published, failed_on,
                   etl_vars>>

NextApp ==
    \/ Tick
    \/ \E s \in Sessions :
        \/ CheckAndRunSetup(s)
        \/ SinkDelete(s)
        \/ SinkCommitPart(s)
        \/ SetupSucceeds(s)
        \/ SetupFails(s)
        \/ WriteTimestamp(s)
        \/ LoadData(s)
        \/ Rerun(s)

(***************************************************************************)
(* The ETL script as a state machine: its statements in order.             *)
(***************************************************************************)
\* stock_etl.py 32: raw = yf.download(tickers, ...)
Download ==
    /\ etl_pc = "download"
    /\ \E input \in Inputs : raw' = input
    /\ etl_pc' = "flatten"
    /\ UNCHANGED <<flat_df, spark_df, app_vars>>

\* stock_etl.py 35-46
BuildPanel ==
    /\ etl_pc = "flatten"
    /\ flat_df' = build_flat_df(raw)
    /\ etl_pc' = "createDataFrame"
    /\ UNCHANGED <<raw, spark_df, app_vars>>

\* stock_etl.py 57
CreateDataFrame ==
    /\ etl_pc = "createDataFrame"
    /\ spark_df' = flat_df
    /\ etl_pc' = "features"
    /\ UNCHANGED <<raw, flat_df, app_vars>>

\* stock_etl.py 70-129
FeatureEngineering ==
    /\ etl_pc = "features"
    /\ spark_df' = feature_engineering(spark_df)
    /\ etl_pc' = "write"
    /\ UNCHANGED <<raw, flat_df, app_vars>>

NextETL == Download \/ BuildPanel \/ CreateDataFrame \/ FeatureEngineering

(***************************************************************************)
(* Specifications.  Spec is one run of the ETL script on every input of    *)
(* Inputs; AppSpec is the dashboard sessions, the clock and the setup      *)
(* scripts they launch, interleaved step by step.                          *)
(***************************************************************************)
Spec == Init /\ [][NextETL]_vars

AppSpec == Init /\ [][NextApp]_vars

(***************************************************************************)
(* Definitions used to state the properties: the input series read         *)
(* directly from raw, and what it is for an integer to be a rounded        *)
(* quotient, stated without the code's rounding.                           *)
(***************************************************************************)
DerivedColumns ==
    {"Prev_close", "Daily_return", "Volatility", "MA_12", "MA_26", "MA_50",
     "MA_200", "First_Close", "Cumulative_Return", "Close_7_Days_Ago",
     "Momentum_7d", "MACD", "Signal_line", "DrawDown"}

Abs(n) == IF n < 0 THEN -n ELSE n

\* x is n/d (d > 0) rounded to the nearest integer, ties away from zero.
IsRounded(x, n, d) ==
    /\ 2 * Abs(x * d - n) <= d
    /\ 2 * Abs(x * d - n) = d => Abs(x * d) > Abs(n)

\* x is (a - b) / b * 100 rounded to 2 decimals (x in hundredths), b > 0.
IsPctChange(x, a, b) == IsRounded(x, (a - b) * 10000, b)

CloseAt(t, i) == Val(raw[t][i].Close)

RECURSIVE SumClose(_, _, _)
SumClose(t, lo, hi) ==
    IF lo > hi THEN 0
    ELSE IF lo = hi THEN CloseAt(t, lo)
    ELSE SumClose(t, lo, (lo + hi) \div 2)
         + SumClose(t, ((lo + hi) \div 2) + 1, hi)

RECURSIVE MaxClose(_, _, _)
MaxClose(t, lo, hi) ==
    IF lo = hi THEN CloseAt(t, lo)
    ELSE LET l == MaxClose(t, lo, (lo + hi) \div 2)
             h == MaxClose(t, ((lo + hi) \div 2) + 1, hi)
         IN  IF l >= h THEN l ELSE h

Lo(i, K) == IF i - K + 1 < 1 THEN 1 ELSE i - K + 1

Published == etl_pc = "write"

Rows == {spark_df[k] : k \in 1..Len(spark_df)}

\* Panels that agree with the input on rows 1..d of ticker t: the prefix
\* alone, and the input with every other row replaced by another bar.
InPrefix(r, t, d) == r.Ticker = t /\ r.Date <= d

prefix_panel(t, d) == SelectSeq(flat_df, LAMBDA r : InPrefix(r, t, d))

other_bar == Bar(700, 900, 500, 800, 1)

perturbed_panel(t, d) ==
    [k \in 1..Len(flat_df) |->
        IF InPrefix(flat_df[k], t, d) THEN flat_df[k]
        ELSE [c \in DOMAIN flat_df[k] |->
                IF c \in DOMAIN other_bar THEN other_bar[c] ELSE flat_df[k][c]]]

RowAt(df, t, d) ==
    df[CHOOSE k \in 1..Len(df) : df[k].Ticker = t /\ df[k].Date = d]

\* The key and the derived columns of the rows of t in df dated lo..hi.
DerivedRows(df, t, lo, hi) ==
    { [c \in DerivedColumns \cup {"Ticker", "Date"} |-> df[k][c]] :
        k \in {j \in 1..Len(df) :
                 df[j].Ticker = t /\ df[j].Date >= lo /\ df[j].Date <= hi} }

Short == \A t \in TickerSet : Len(raw[t]) <= MaxLen

(***************************************************************************)
(* C1.  No look-ahead: the derived columns of the row of ticker t at       *)
(* position i are the ones the engine computes from rows 0..i of t alone   *)
(* (every later row of t and every row of the other tickers dropped), and  *)
(* they do not change when the rows of t after a cut and all rows of the   *)
(* other tickers are replaced by other bars.                               *)
(***************************************************************************)
C1_NoLookAhead ==
    Published =>
        /\ Short =>
              \A t \in TickerSet : \A d \in 1..Len(raw[t]) :
                  DerivedRows(spark_df, t, d, d)
                    = DerivedRows(feature_engineering(prefix_panel(t, d)),
                                  t, d, d)
        /\ \A t \in TickerSet :
              \A d \in {(Len(raw[t]) + 1) \div 2, Len(raw[t]) - 1} :
                  DerivedRows(spark_df, t, 1, d)
                    = DerivedRows(feature_engineering(perturbed_panel(t, d)),
                                  t, 1, d)

\* A row of the second ticker with rows after it and another ticker's rows
\* beside it, late enough for the 7-row lag and the 9-row frame to be full.
C1_Witness ==
    /\ Published
    /\ raw[tickers[1]] # raw[tickers[2]]
    /\ \E r \in Rows :
        /\ r.Ticker = tickers[2]
        /\ r.Date >= 9
        /\ r.Date < Len(raw[r.Ticker])
        /\ ~IsNull(r.Momentum_7d)
        /\ r.Daily_return # Some(0)

MAColumn(K) ==
    CASE K = 12 -> "MA_12" [] K = 26 -> "MA_26" [] K = 50 -> "MA_50"
      [] K = 200 -> "MA_200"

(***************************************************************************)
(* C2.  Partial-window moving average: MA_K at row i (1-based here) is     *)
(* never null and is the mean of Close over rows max(1, i-K+1)..i rounded  *)
(* to 2 decimals, for K in 12, 26, 50, 200.                                *)
(***************************************************************************)
C2_PartialWindowMA ==
    Published =>
        \A r \in Rows : \A K \in {12, 26, 50, 200} :
            LET lo == Lo(r.Date, K)
                x == r[MAColumn(K)]
            IN  /\ ~IsNull(x)
                /\ IsRounded(Val(x), SumClose(r.Ticker, lo, r.Date),
                             r.Date - lo + 1)

\* The last row of a ticker with fewer than 12 rows, whose mean is not a
\* whole number of hundredths.
C2_Witness ==
    /\ Published
    /\ \E r \in Rows :
        /\ Len(raw[r.Ticker]) < 12
        /\ r.Date = Len(raw[r.Ticker])
        /\ r.Date > 1
        /\ SumClose(r.Ticker, 1, r.Date) % r.Date # 0
        /\ ~IsNull(r.MA_12)

\* The running maximum of Close from the first row through the row.
Peak(r) == MaxClose(r.Ticker, 1, r.Date)

(***************************************************************************)
(* C3.  Drawdown.  As claimed: the emitted DrawDown is <= 0 and is 0       *)
(* exactly at the rows whose Close is the running maximum.                 *)
(***************************************************************************)
C3_DrawDownZeroIffPeak ==
    Published =>
        \A r \in Rows :
            /\ ~IsNull(r.DrawDown)
            /\ Val(r.DrawDown) <= 0
            /\ Val(r.DrawDown) = 0 <=> Val(r.Close) = Peak(r)

(***************************************************************************)
(* C3, amended.  The emitted DrawDown is <= 0 for every row and is 0 at    *)
(* every row whose Close is the running maximum; it is 0 only at rows      *)
(* whose Close is less than 0.005 percent under the running maximum.       *)
(***************************************************************************)
C3_DrawDown ==
    Published =>
        \A r \in Rows :
            /\ ~IsNull(r.DrawDown)
            /\ Val(r.DrawDown) <= 0
            /\ Val(r.Close) = Peak(r) => Val(r.DrawDown) = 0
            /\ Val(r.DrawDown) = 0 =>
                  2 * (Peak(r) - Val(r.Close)) * 10000 < Peak(r)

\* A row under its peak whose drawdown is emitted as 0.00.
C3_Witness ==
    /\ Published
    /\ \E r \in Rows : Val(r.Close) < Peak(r) /\ r.DrawDown = Some(0)

\* The error outcome of the specification, as a column value.
DivisionByZeroPrice == <<"DivisionByZeroPrice">>

(***************************************************************************)
(* C4.  Division by a zero base is reported: a row with Low = 0 has the    *)
(* error outcome DivisionByZeroPrice in Volatility, not null, and the      *)
(* other derived columns of the row keep their values.                     *)
(***************************************************************************)
C4_DivisionByZeroReported ==
    Published =>
        \A r \in Rows :
            Val(r.Low) = 0 =>
                /\ ~IsNull(r.Volatility)
                /\ r.Volatility = DivisionByZeroPrice
                /\ ~IsNull(r.MA_12)
                /\ ~IsNull(r.DrawDown)

(***************************************************************************)
(* C7.  Start-of-series nulls.  With i the 1-based row position:           *)
(* Prev_close is null iff i = 1 and else Close at i-1; Close_7_Days_Ago is *)
(* null iff i <= 7 and else Close at i-7; Daily_return and Momentum_7d are *)
(* null exactly with their base and else (Close - base) / base * 100       *)
(* rounded to 2 decimals.                                                  *)
(***************************************************************************)
C7_LaggedColumns ==
    Published =>
        \A r \in Rows :
            LET t == r.Ticker
                i == r.Date
                c == Val(r.Close)
            IN  /\ IsNull(r.Prev_close) <=> i = 1
                /\ i > 1 => r.Prev_close = Some(CloseAt(t, i - 1))
                /\ IsNull(r.Close_7_Days_Ago) <=> i <= 7
                /\ i > 7 => r.Close_7_Days_Ago = Some(CloseAt(t, i - 7))
                /\ IsNull(r.Daily_return) <=> IsNull(r.Prev_close)
                /\ IsNull(r.Momentum_7d) <=> IsNull(r.Close_7_Days_Ago)
                /\ i > 1 => IsPctChange(Val(r.Daily_return), c,
                                        CloseAt(t, i - 1))
                /\ i > 7 => IsPctChange(Val(r.Momentum_7d), c,
                                        CloseAt(t, i - 7))

\* Close 100, 110, 99 gives Daily_return null, 10.0, -10.0, in a series long
\* enough for a row to have a Close 7 rows back.
C7_Witness ==
    /\ Published
    /\ \E t \in TickerSet :
        /\ Len(raw[t]) >= 8
        /\ CloseAt(t, 1) = 10000 /\ CloseAt(t, 2) = 11000
        /\ CloseAt(t, 3) = 9900
        /\ RowAt(spark_df, t, 1).Daily_return = Null
        /\ RowAt(spark_df, t, 2).Daily_return = Some(1000)
        /\ RowAt(spark_df, t, 3).Daily_return = Some(-1000)
        /\ RowAt(spark_df, t, 7).Momentum_7d = Null
        /\ RowAt(spark_df, t, 8).Momentum_7d = Some(1000)

\* The mean of Close over the K rows ending at i, rounded to 2 decimals.
RoundedMean(t, i, K) ==
    LET n == i - Lo(i, K) + 1
        s == SumClose(t, Lo(i, K), i)
    IN  CHOOSE x \in {s \div n, (s \div n) + 1} : IsRounded(x, s, n)

RoundedMACD(t, i) == RoundedMean(t, i, 12) - RoundedMean(t, i, 26)

RECURSIVE SumMACD(_, _, _)
SumMACD(t, lo, hi) ==
    IF lo > hi THEN 0 ELSE RoundedMACD(t, hi) + SumMACD(t, lo, hi - 1)

(***************************************************************************)
(* C8.  MACD after rounding: MACD is the rounded mean of the last 12       *)
(* closes minus the rounded mean of the last 26, and Signal_line is the    *)
(* mean of these MACD values over rows max(1, i-8)..i rounded to 2         *)
(* decimals.                                                               *)
(***************************************************************************)
C8_MACDAfterRounding ==
    Published =>
        \A r \in Rows :
            LET t == r.Ticker
                i == r.Date
            IN  /\ r.MACD = Some(RoundedMACD(t, i))
                /\ ~IsNull(r.Signal_line)
                /\ IsRounded(Val(r.Signal_line), SumMACD(t, Lo(i, 9), i),
                             i - Lo(i, 9) + 1)

\* A row past the 12-row window whose MACD is not the difference of the
\* unrounded means rounded once, in a series with more than 9 rows.
C8_Witness ==
    /\ Published
    /\ \E r \in Rows :
        LET t == r.Ticker
            i == r.Date
            s12 == SumClose(t, Lo(i, 12), i)
            s26 == SumClose(t, Lo(i, 26), i)
            n12 == i - Lo(i, 12) + 1
            n26 == i - Lo(i, 26) + 1
        IN  /\ i > 12
            /\ ~IsNull(r.MACD)
            /\ ~IsRounded(Val(r.MACD), s12 * n26 - s26 * n12, n12 * n26)
            /\ r.Signal_line # r.MACD

PanelBuilt == etl_pc \in {"createDataFrame", "features", "write"}

Position(seq, x) == CHOOSE k \in 1..Len(seq) : seq[k] = x

\* Python's str order on the symbols of the model.
TickerLess(a, b) == Position(sorted_tickers, a) < Position(sorted_tickers, b)

C5_AllOrNothingPublish ==
    \A s \in Sessions :
        (~IsNull(app_df[s]) /\ Val(app_df[s]).prior) =>
            IsSnapshot(Val(app_df[s]).files)

(***************************************************************************)
(* C6.  Once-per-day guard: on no calendar date is the setup script        *)
(* launched more than once, however the sessions interleave.               *)
(***************************************************************************)
C6_OncePerDay == \A d \in Dates : launched[d] <= 1

(***************************************************************************)
(* C10.  The guard records the date even when the pipeline fails.  The     *)
(* step after run_setup_script returned, failed or not, writes the date    *)
(* (the one read at the check, or the one read at the write when there was *)
(* no timestamp file) and goes on to load_data; and once a date has been   *)
(* written for a failed run, every later check_and_run_setup on that date  *)
(* launches nothing, leaves the file alone and goes on to load_data.       *)
(***************************************************************************)
C10_FailedRunStillStamps ==
    [][\A s \in Sessions :
          /\ (pc[s] = "stamp" /\ pc'[s] # "stamp") =>
                /\ pc'[s] = "load"
                /\ \/ timestamp_file' = Some(today)
                   \/ /\ ~IsNull(current_date[s])
                      /\ timestamp_file' = current_date[s]
          /\ (pc[s] = "start" /\ pc'[s] # "start" /\ today \in failed_on) =>
                /\ pc'[s] = "load"
                /\ runs' = runs
                /\ launched' = launched
                /\ timestamp_file' = timestamp_file]_vars

====
